---- MODULE Spec2Model ----
(***************************************************************************)
(* Employee Data Management System: the record store (EmployeeManager),    *)
(* its validators, the CSV persistence file and the interactive session.   *)
(*                                                                         *)
(* A text is a sequence of characters, a character a one-letter string     *)
(* (CR, LF, TAB and SUP2 name the characters that have no letter).  The    *)
(* persistence file is the text of its content, so that csv.DictWriter and *)
(* csv.DictReader are modelled by what they write and parse.               *)
(***************************************************************************)
EXTENDS Integers, Sequences, FiniteSets, TLC

\* ------------------------------------------------------------ characters

CR == "\r"
LF == "\n"
TAB == "\t"
\* U+00B2 SUPERSCRIPT TWO: str.isdigit() is true of it, str.isdecimal() is not
SUP2 == "SUP2"

Delimiter == ","
QuoteChar == "\""

DecimalDigits == {"0", "1", "2", "3", "4", "5", "6", "7", "8", "9"}
LowerLetters ==
    {"a", "b", "c", "d", "e", "f", "i", "l", "m", "n", "o", "p", "r", "s", "t", "x", "y"}
UpperLetters == {"A", "B", "D", "E", "F", "I", "N", "P", "S", "Y"}
Whitespace == {" ", TAB, CR, LF}

\* Python's None, as dict value; no character is spelled "None"
None == <<"None">>

\* a file that does not exist (os.path.exists is false)
NoFile == <<"NoFile">>

\* ------------------------------------------------------------ str methods

\* str.lower() on one character
LowerChar(c) ==
    CASE c = "A" -> "a" [] c = "B" -> "b" [] c = "D" -> "d" [] c = "E" -> "e"
      [] c = "F" -> "f" [] c = "I" -> "i" [] c = "N" -> "n" [] c = "P" -> "p"
      [] c = "S" -> "s" [] c = "Y" -> "y" [] OTHER -> c

\* str.lower()
Lower(s) == [i \in 1..Len(s) |-> LowerChar(s[i])]

\* str.strip(): leading and trailing whitespace removed
Strip(s) ==
    LET keep == {i \in 1..Len(s) : s[i] \notin Whitespace}
    IN IF keep = {} THEN <<>>
       ELSE LET lo == CHOOSE i \in keep : \A j \in keep : i <= j
                hi == CHOOSE i \in keep : \A j \in keep : j <= i
            IN SubSeq(s, lo, hi)

\* str.isdigit(): non-empty and every character a digit (Unicode Numeric_Type
\* Digit or Decimal, which includes the superscript digits)
IsDigit(s) == Len(s) > 0 /\ \A i \in 1..Len(s) : s[i] \in DecimalDigits \cup {SUP2}

\* ------------------------------------------------------------ csv writer

FIELDS == << <<"I", "D">>, <<"N", "a", "m", "e">>,
             <<"P", "o", "s", "i", "t", "i", "o", "n">>,
             <<"S", "a", "l", "a", "r", "y">>, <<"E", "m", "a", "i", "l">> >>

F_ID == FIELDS[1]
F_Name == FIELDS[2]
F_Position == FIELDS[3]
F_Salary == FIELDS[4]
F_Email == FIELDS[5]

\* the characters that make the writer quote a field (QUOTE_MINIMAL):
\* delimiter, quotechar and the characters of the line terminator "\r\n"
NeedsQuote(s) == \E i \in 1..Len(s) : s[i] \in {Delimiter, QuoteChar, CR, LF}

\* doublequote=True: every quotechar of the field is written twice
DoubleQuotes(s) ==
    LET at(k) == Cardinality({x \in 1..k : s[x] = QuoteChar})
        n == Len(s) + at(Len(s))
    IN [m \in 1..n |->
          s[CHOOSE k \in 1..Len(s) : k + at(k - 1) <= m /\ m <= k + at(k)]]

\* one field as the writer emits it; None is written as the empty string
WriteField(v) ==
    IF v = None THEN <<>>
    ELSE IF NeedsQuote(v) THEN <<QuoteChar>> \o DoubleQuotes(v) \o <<QuoteChar>>
    ELSE v

RECURSIVE JoinFields(_)
JoinFields(fs) ==
    IF fs = <<>> THEN <<>>
    ELSE IF Len(fs) = 1 THEN WriteField(fs[1])
    ELSE WriteField(fs[1]) \o <<Delimiter>> \o JoinFields(Tail(fs))

\* csv.writer.writerow: the fields joined by the delimiter, then "\r\n"
WriteRow(fs) == JoinFields(fs) \o <<CR, LF>>

\* DictWriter.writeheader
HeaderLine == WriteRow(FIELDS)

\* row = {"ID": emp_id, **data}; writer.writerow(row)
RecordLine(e) == WriteRow(<<e.ID, e.Name, e.Position, e.Salary, e.Email>>)

RECURSIVE RecordLines(_)
RecordLines(emps) ==
    IF emps = <<>> THEN <<>> ELSE RecordLine(Head(emps)) \o RecordLines(Tail(emps))

\* the whole text save_all writes for a mapping
Serialize(emps) == HeaderLine \o RecordLines(emps)

\* ------------------------------------------------------------ csv reader

\* The reader of the excel dialect (doublequote, not strict, no escapechar, no
\* skipinitialspace) over a text opened with newline="": what the state
\* machine of _csv.c (START_RECORD, START_FIELD, IN_FIELD, IN_QUOTED_FIELD,
\* QUOTE_IN_QUOTED_FIELD, EAT_CRNL) yields, field by field.

Min(S) == CHOOSE x \in S : \A y \in S : x <= y
Max(S) == CHOOSE x \in S : \A y \in S : y <= x

\* the characters of s at the positions in keep, in order
Pick(s, keep) ==
    [m \in 1..Cardinality(keep) |->
        s[CHOOSE k \in keep : Cardinality({x \in keep : x <= k}) = m]]

\* the first position from i on whose character is in C, Len(s) + 1 if none
FirstOf(s, i, C) ==
    LET hits == {k \in i..Len(s) : s[k] \in C}
    IN IF hits = {} THEN Len(s) + 1 ELSE Min(hits)

\* where the run of quotechars that holds position k begins, in a quoted field
\* opened at position i
RunStart(s, i, k) == 1 + Max({i} \cup {x \in (i + 1)..k : s[x] # QuoteChar})

\* IN_QUOTED_FIELD entered at position i: quotechars pair up from the start of
\* each run ("" is one quotechar of the field); the quotechar left over at the
\* end of a run of odd length closes the quoted part; 0 if nothing closes it
ClosingQuote(s, i) ==
    LET ends == {j \in (i + 1)..Len(s) :
                    /\ s[j] = QuoteChar
                    /\ (j = Len(s) \/ s[j + 1] # QuoteChar)
                    /\ (j - RunStart(s, i, j)) % 2 = 0}
    IN IF ends = {} THEN 0 ELSE Min(ends)

\* the quoted part between positions i and j, every "" read as one quotechar
Unquoted(s, i, j) ==
    Pick(s, {k \in (i + 1)..(j - 1) :
                s[k] # QuoteChar \/ (k - RunStart(s, i, k)) % 2 = 0})

\* the field that starts at position i (START_FIELD): its value, and the
\* position of the delimiter or line end that ends it (Len(s) + 1: the text
\* ends). Line ends inside a quoted part belong to the field; what follows the
\* closing quotechar is read as an unquoted rest (IN_FIELD)
FieldAt(s, i) ==
    IF i <= Len(s) /\ s[i] = QuoteChar THEN
        LET j == ClosingQuote(s, i)
            e == FirstOf(s, j + 1, {Delimiter, CR, LF})
        IN IF j = 0 THEN [value |-> Unquoted(s, i, Len(s) + 1), end |-> Len(s) + 1]
           ELSE [value |-> Unquoted(s, i, j) \o SubSeq(s, j + 1, e - 1), end |-> e]
    ELSE LET e == FirstOf(s, i, {Delimiter, CR, LF})
         IN [value |-> SubSeq(s, i, e - 1), end |-> e]

RECURSIVE FieldsFrom(_, _)
\* the fields of the row whose next field starts at position i
FieldsFrom(s, i) ==
    LET f == FieldAt(s, i)
    IN IF f.end <= Len(s) /\ s[f.end] = Delimiter
       THEN <<f>> \o FieldsFrom(s, f.end + 1)
       ELSE <<f>>

\* the start of the line after the line end at position e: a line ends after
\* "\n", after "\r\n" and after a lone "\r" (EAT_CRNL eats the rest of it)
AfterLine(s, e) ==
    IF e < Len(s) /\ s[e] = CR /\ s[e + 1] = LF THEN e + 2 ELSE e + 1

RECURSIVE RowsFrom(_, _)
\* the rows from position i on (START_RECORD); an empty line is the row []
RowsFrom(s, i) ==
    IF i > Len(s) THEN <<>>
    ELSE IF s[i] \in {CR, LF} THEN << <<>> >> \o RowsFrom(s, AfterLine(s, i))
    ELSE LET fs == FieldsFrom(s, i)
         IN << [k \in 1..Len(fs) |-> fs[k].value] >>
            \o RowsFrom(s, AfterLine(s, fs[Len(fs)].end))

\* every row of the text, the header row first
ReadRows(text) == RowsFrom(text, 1)

\* DictReader: row.get(key, default) of the dict built from fieldnames and a
\* row: dict(zip(fieldnames, row)), then restval (None) for every fieldname
\* the row is too short for
RowGet(fieldnames, row, key, default) ==
    LET short == {j \in (Len(row) + 1)..Len(fieldnames) : fieldnames[j] = key}
        zipped == {j \in 1..Len(row) : j <= Len(fieldnames) /\ fieldnames[j] = key}
    IN IF short # {} THEN None
       ELSE IF zipped # {} THEN row[CHOOSE j \in zipped : \A k \in zipped : k <= j]
       ELSE default

\* ------------------------------------------------------------ the mapping

\* self.employees, a dict in insertion order: a sequence of entries with
\* distinct ID
Keys(emps) == {emps[i].ID : i \in 1..Len(emps)}

Has(emps, k) == \E i \in 1..Len(emps) : emps[i].ID = k

IndexOf(emps, k) == CHOOSE i \in 1..Len(emps) : emps[i].ID = k

\* self.employees[k]
Lookup(emps, k) == emps[IndexOf(emps, k)]

\* self.employees[k] = value: an existing key keeps its place
DictSet(emps, e) ==
    IF Has(emps, e.ID) THEN [emps EXCEPT ![IndexOf(emps, e.ID)] = e]
    ELSE Append(emps, e)

\* a variant of DictDel that removes the oldest entry
DictDel_First(emps, k) == Tail(emps)

\* del self.employees[k]
DictDel(emps, k) ==
    LET i == IndexOf(emps, k)
    IN SubSeq(emps, 1, i - 1) \o SubSeq(emps, i + 1, Len(emps))

\* the body of load()'s loop for one row of the reader
LoadRow(emps, fieldnames, row) ==
    LET id == RowGet(fieldnames, row, F_ID, None)
    IN IF row = <<>> \/ id = None \/ id = <<>> THEN emps
       ELSE DictSet(emps, [ID |-> id,
                           Name |-> RowGet(fieldnames, row, F_Name, <<>>),
                           Position |-> RowGet(fieldnames, row, F_Position, <<>>),
                           Salary |-> RowGet(fieldnames, row, F_Salary, <<>>),
                           Email |-> RowGet(fieldnames, row, F_Email, <<>>)])

RECURSIVE LoadRows(_, _, _, _)
LoadRows(emps, fieldnames, rows, i) ==
    IF i > Len(rows) THEN emps
    ELSE LoadRows(LoadRow(emps, fieldnames, rows[i]), fieldnames, rows, i + 1)

\* load(): the mapping read from the persistence file
Load(f) ==
    IF f = NoFile \/ f = <<>> THEN <<>>
    ELSE LET rows == ReadRows(f)
         IN IF rows = <<>> THEN <<>> ELSE LoadRows(<<>>, rows[1], rows, 2)

\* ------------------------------------------------------------ validators

\* a variant of validate_id that does not look at the keys
validate_id_NotUnique(emp_id, emps) == IsDigit(emp_id) /\ emp_id # <<>>

\* validate_id: numeric, not empty and not already a key
validate_id(emp_id, emps) == IsDigit(emp_id) /\ emp_id # <<>> /\ ~Has(emps, emp_id)

\* validate_existing_id
validate_existing_id(emp_id, emps) == Has(emps, emp_id)

Unsigned(s) == IF s # <<>> /\ s[1] \in {"+", "-"} THEN Tail(s) ELSE s

\* digits with at most one ".", and at least one digit
IsMantissa(m) ==
    /\ \A i \in 1..Len(m) : m[i] \in DecimalDigits \cup {"."}
    /\ Cardinality({i \in 1..Len(m) : m[i] = "."}) <= 1
    /\ \E i \in 1..Len(m) : m[i] \in DecimalDigits

IsExponent(x) ==
    LET u == Unsigned(x)
    IN Len(u) > 0 /\ \A i \in 1..Len(u) : u[i] \in DecimalDigits

IsInfinity(s) ==
    Lower(Unsigned(s)) \in {<<"i", "n", "f">>, <<"i", "n", "f", "i", "n", "i", "t", "y">>}

IsNan(s) == Lower(Unsigned(s)) = <<"n", "a", "n">>

IsDecimalNumber(s) ==
    LET u == Unsigned(s)
        es == {i \in 1..Len(u) : u[i] \in {"e", "E"}}
    IN IF es = {} THEN IsMantissa(u)
       ELSE LET k == CHOOSE i \in es : \A j \in es : i <= j
            IN IsMantissa(SubSeq(u, 1, k - 1)) /\ IsExponent(SubSeq(u, k + 1, Len(u)))

\* float(salary_str) does not raise ValueError
ParsesAsFloat(s) == IsInfinity(s) \/ IsNan(s) \/ IsDecimalNumber(s)

\* float(salary_str) >= 0: nan compares false, and so does a negative number
\* with a digit other than 0 in its mantissa (-0.0 >= 0 is true)
FloatNonNegative(s) ==
    /\ ~IsNan(s)
    /\ ~(s[1] = "-" /\ (IsInfinity(s) \/ \E i \in 1..Len(s) :
                            /\ s[i] \in DecimalDigits \ {"0"}
                            /\ \A j \in 1..i : s[j] \notin {"e", "E"}))

\* validate_salary
validate_salary(salary_str) == ParsesAsFloat(salary_str) /\ FloatNonNegative(salary_str)

\* \w of a str pattern
WordChar(c) == c \in LowerLetters \cup UpperLetters \cup DecimalDigits \cup {"_", SUP2}

\* [\w\.-]
EmailChar(c) == WordChar(c) \/ c \in {".", "-"}

\* validate_email: non-empty and ^[\w\.-]+@[\w\.-]+\.\w+$
validate_email(email) ==
    /\ email # <<>>
    /\ \E a \in 1..Len(email), d \in 1..Len(email) :
          /\ 1 < a /\ a + 1 < d /\ d < Len(email)
          /\ email[a] = "@" /\ email[d] = "."
          /\ \A i \in 1..(a - 1) : EmailChar(email[i])
          /\ \A i \in (a + 1)..(d - 1) : EmailChar(email[i])
          /\ \A i \in (d + 1)..Len(email) : WordChar(email[i])

\* max_attempts of get_input_with_retry
MaxAttempts == 3

\* ------------------------------------------------------------ inputs

\* what the user may type at a prompt, before .strip()
IdInputs == {<<" ", "1">>, <<SUP2>>, <<"a">>, <<>>}
NameInputs == {<<>>, <<"B", ",", "C">>}
PositionInputs == {<<>>, <<"E">>}
SalaryInputs == {<<>>, <<"6", "0", "0", "0", "0">>, <<"-", "5">>, <<"a">>}
EmailInputs == {<<>>, <<"a", "@", "x", ".", "c">>, <<"b">>}

\* the model stops adding when the mapping holds this many employees
MaxEmployees == 2
ConfirmInputs == {<<"y">>, <<" ", "Y">>, <<"n">>, <<"y", "e", "s">>, <<>>}
MenuInputs == {<<"1">>, <<"2">>, <<"3">>, <<"4">>, <<"5">>, <<"6">>, <<" ", "1">>,
               <<"7">>, <<"a">>, <<>>}

\* a persistence file left by an earlier run that added employee 1
WrittenFile ==
    Serialize(<< [ID |-> <<"1">>, Name |-> <<"A">>, Position |-> <<"E">>,
                  Salary |-> <<"5", "0", "0", "0", "0">>,
                  Email |-> <<"a", "@", "x", ".", "c">>] >>)

\* a CSV file edited by hand: a row with an empty ID, a blank line, and a row
\* whose ID is no number and whose trailing fields are missing
ForeignFile ==
    HeaderLine \o <<",", "A", ",", "E", LF, LF>> \o <<"a", ",", "A", ",", "E", LF>>

\* the persistence file the process may find when it starts
InitialFiles == {NoFile, <<>>, WrittenFile, ForeignFile}

\* ------------------------------------------------------------ state

VARIABLES
    pc,          \* where the process is; "stopped" when no process runs
    employees,   \* self.employees
    file,        \* content of self.filename, or NoFile
    tmp,         \* content of self.filename + ".tmp", or NoFile
    loc,         \* the local variables of the operation in progress
    out,         \* the message the last step printed, "none" when it printed none
    exitCode,    \* exit status of the process that stopped, -1 when none has
    snap,        \* history: mapping and file when the operation began
    saveCalled,  \* history: the operation has called save_all()
    lastSaved,   \* history: the mapping of the last completed save_all()
    everSaved,   \* history: some save_all() has completed
    refKeys,     \* history: the key set replayed from the reports since an empty start
    fromEmpty    \* history: this process started with an empty mapping

vars == <<pc, employees, file, tmp, loc, out, exitCode, snap, saveCalled,
          lastSaved, everSaved, refKeys, fromEmpty>>

\* choice: what was typed at the menu; raw: what the last input() of
\* get_input_with_retry returned; listed: the rows list() printed
NoLoc == [op |-> "none", choice |-> <<>>, emp_id |-> <<>>, name |-> <<>>,
          position |-> <<>>, salary |-> <<>>, email |-> <<>>, confirm |-> <<>>,
          raw |-> <<>>, attempts |-> 0, i |-> 0, listed |-> <<>>]

\* stale: a temporary file of an earlier process existed when the operation began
NoSnap == [employees |-> <<>>, file |-> NoFile, stale |-> FALSE]

Init ==
    /\ pc = "stopped"
    /\ employees = <<>>
    /\ file \in InitialFiles
    /\ tmp = NoFile
    /\ loc = NoLoc
    /\ out = "none"
    /\ exitCode = -1
    /\ snap = NoSnap
    /\ saveCalled = FALSE
    /\ lastSaved = <<>>
    /\ everSaved = FALSE
    /\ refKeys = {}
    /\ fromEmpty = FALSE

\* the process ends: its memory is gone, the files stay
Stop(code, msg) ==
    /\ pc' = "stopped"
    /\ employees' = <<>>
    /\ loc' = NoLoc
    /\ out' = msg
    /\ exitCode' = code
    /\ snap' = NoSnap
    /\ saveCalled' = FALSE
    /\ refKeys' = {}
    /\ fromEmpty' = FALSE

\* the script is started: __init__ chooses the file name and sets
\* self.employees = {}
Start ==
    /\ pc = "stopped"
    /\ pc' = "loading"
    /\ employees' = <<>>
    /\ out' = "none"
    /\ exitCode' = -1
    /\ refKeys' = {}
    /\ fromEmpty' = FALSE
    /\ UNCHANGED <<file, tmp, loc, snap, saveCalled, lastSaved, everSaved>>

\* self.load() returns, run() prints the banner and enters its try block
Loaded ==
    /\ pc = "loading"
    /\ pc' = "menu"
    /\ employees' = Load(file)
    /\ fromEmpty' = (Load(file) = <<>>)
    /\ UNCHANGED <<file, tmp, loc, out, exitCode, snap, saveCalled, lastSaved,
                   everSaved, refKeys>>

\* KeyboardInterrupt before run() has entered its try block: nothing catches
\* it, the interpreter ends with a traceback and the status of SIGINT
StartupInterrupt ==
    /\ pc = "loading"
    /\ Stop(130, "KeyboardInterrupt")
    /\ UNCHANGED <<file, tmp, lastSaved, everSaved>>

\* ------------------------------------------------------------ run()

\* the operation a menu choice starts, and its first prompt
FirstPrompt(choice) ==
    CASE choice = <<"1">> -> "add_id"
      [] choice = <<"2">> -> "upd_id"
      [] choice = <<"3">> -> "del_id"
      [] choice = <<"4">> -> "search_id"
      [] OTHER -> "return"

OpOf(choice) ==
    CASE choice = <<"1">> -> "add"
      [] choice = <<"2">> -> "update"
      [] choice = <<"3">> -> "delete"
      [] choice = <<"4">> -> "search"
      [] choice = <<"5">> -> "list"
      [] choice = <<"6">> -> "exit"
      [] OTHER -> "invalid"

\* the characters of the model in the order of their code points
Alphabet ==
    <<TAB, LF, CR, " ", QuoteChar, Delimiter, "-", ".",
      "0", "1", "2", "3", "4", "5", "6", "7", "8", "9", "@",
      "A", "B", "C", "D", "E", "F", "G", "H", "I", "J", "K", "L", "M",
      "N", "O", "P", "Q", "R", "S", "T", "U", "V", "W", "X", "Y", "Z", "_",
      "a", "b", "c", "d", "e", "f", "g", "h", "i", "j", "k", "l", "m",
      "n", "o", "p", "q", "r", "s", "t", "u", "v", "w", "x", "y", "z", SUP2>>

\* the rank of a character in the order of code points
Ord(c) == CHOOSE i \in 1..Len(Alphabet) : Alphabet[i] = c

\* a < b for two str: the first character that differs decides, a proper
\* prefix is smaller
StrLess(a, b) ==
    \/ Len(a) < Len(b) /\ \A i \in 1..Len(a) : a[i] = b[i]
    \/ \E k \in 1..Min({Len(a), Len(b)}) :
          /\ \A i \in 1..(k - 1) : a[i] = b[i]
          /\ Ord(a[k]) < Ord(b[k])

\* sorted(self.employees.items()): the keys are distinct, so they alone decide
SortedItems(emps) ==
    LET Rank(i) == 1 + Cardinality({j \in 1..Len(emps) : StrLess(emps[j].ID, emps[i].ID)})
    IN [r \in 1..Len(emps) |-> emps[CHOOSE i \in 1..Len(emps) : Rank(i) = r]]

\* list(): the rows are formatted with d['Name'][:20], d['Position'][:20] and
\* {d['Salary']:<12}, each a TypeError when the value is None
ListRaises(emps) ==
    \E i \in 1..Len(emps) : None \in {emps[i].Name, emps[i].Position, emps[i].Salary}

\* the rows list() prints, one for each item in sorted order
ListOutput(emps) == SortedItems(emps)

\* choice = input("Choose an option: ").strip() and the dispatch on it
MenuChoice(raw) ==
    LET choice == Strip(raw)
    IN /\ pc = "menu"
       /\ choice = <<"1">> => Len(employees) < MaxEmployees
       /\ IF choice = <<"6">> THEN
             /\ Stop(0, "goodbye")
             /\ UNCHANGED <<file, tmp, lastSaved, everSaved>>
          ELSE IF choice = <<"5">> /\ ListRaises(employees) THEN
             /\ Stop(1, "TypeError")
             /\ UNCHANGED <<file, tmp, lastSaved, everSaved>>
          ELSE
             /\ pc' = FirstPrompt(choice)
             /\ loc' = [NoLoc EXCEPT !.op = OpOf(choice), !.choice = raw,
                                     !.listed = IF choice = <<"5">>
                                                THEN ListOutput(employees)
                                                ELSE <<>>]
             /\ out' = CASE choice = <<"5">> -> "listed"
                         [] OpOf(choice) = "invalid" -> "invalid_choice"
                         [] OTHER -> "none"
             /\ snap' = [employees |-> employees, file |-> file,
                         stale |-> (tmp # NoFile)]
             /\ UNCHANGED <<employees, file, tmp, exitCode, saveCalled, lastSaved,
                            everSaved, refKeys, fromEmpty>>

\* the operation returns to the loop of run(), which prints the menu again
Return ==
    /\ pc = "return"
    /\ pc' = "menu"
    /\ loc' = NoLoc
    /\ out' = "none"
    /\ snap' = NoSnap
    /\ saveCalled' = FALSE
    /\ UNCHANGED <<employees, file, tmp, exitCode, lastSaved, everSaved, refKeys,
                   fromEmpty>>

\* ------------------------------------------------------------ prompts

PromptStates == {"add_id", "add_name", "add_position", "add_salary", "add_email",
                 "upd_id", "upd_name", "upd_position", "upd_salary", "upd_email",
                 "del_id", "search_id"}

InputsAt(p) ==
    CASE p \in {"add_id", "upd_id", "del_id", "search_id"} -> IdInputs
      [] p \in {"add_name", "upd_name"} -> NameInputs
      [] p \in {"add_position", "upd_position"} -> PositionInputs
      [] p \in {"add_salary", "upd_salary"} -> SalaryInputs
      [] OTHER -> EmailInputs

\* allow_empty of the call
AllowEmpty(p) == p \in {"upd_name", "upd_position", "upd_salary", "upd_email"}

\* validate_fn of the call, applied to the value; no validate_fn accepts all
Validates(p, value, emps) ==
    CASE p = "add_id" -> validate_id(value, emps)
      [] p \in {"upd_id", "del_id", "search_id"} -> validate_existing_id(value, emps)
      [] p \in {"add_name", "add_position"} -> value # <<>>
      [] p \in {"add_salary", "upd_salary"} -> validate_salary(value)
      [] p \in {"add_email", "upd_email"} -> validate_email(value)
      [] OTHER -> TRUE

\* whether get_input_with_retry returns the value
Accepts(p, value, emps) == (AllowEmpty(p) /\ value = <<>>) \/ Validates(p, value, emps)

\* where the caller goes with the value returned
AfterPrompt(p) ==
    CASE p = "add_id" -> "add_name"
      [] p = "add_name" -> "add_position"
      [] p = "add_position" -> "add_salary"
      [] p = "add_salary" -> "add_email"
      [] p = "add_email" -> "add_insert"
      [] p = "upd_id" -> "upd_name"
      [] p = "upd_name" -> "upd_position"
      [] p = "upd_position" -> "upd_salary"
      [] p = "upd_salary" -> "upd_email"
      [] p = "upd_email" -> "upd_assign"
      [] p = "del_id" -> "del_confirm"
      [] OTHER -> "return"

\* the local variable of the caller that receives the value
Bind(l, p, value) ==
    CASE p \in {"add_id", "upd_id", "del_id", "search_id"} -> [l EXCEPT !.emp_id = value]
      [] p \in {"add_name", "upd_name"} -> [l EXCEPT !.name = value]
      [] p \in {"add_position", "upd_position"} -> [l EXCEPT !.position = value]
      [] p \in {"add_salary", "upd_salary"} -> [l EXCEPT !.salary = value]
      [] OTHER -> [l EXCEPT !.email = value]

\* a variant of PromptTurn whose loop runs while attempts <= max_attempts
PromptTurn_OneMore(raw) ==
    LET value == Strip(raw)
    IN IF Accepts(pc, value, employees) THEN
          /\ pc' = AfterPrompt(pc)
          /\ loc' = [Bind(loc, pc, value) EXCEPT !.attempts = 0, !.raw = raw]
          /\ out' = IF pc = "search_id" THEN "details" ELSE "none"
       ELSE IF loc.attempts + 1 <= MaxAttempts THEN
          /\ pc' = pc
          /\ loc' = [loc EXCEPT !.attempts = loc.attempts + 1, !.raw = raw]
          /\ out' = "invalid_value"
       ELSE
          /\ pc' = "return"
          /\ loc' = [loc EXCEPT !.attempts = loc.attempts + 1, !.raw = raw]
          /\ out' = "max_attempts"

\* one turn of the loop of get_input_with_retry, value = input(prompt).strip():
\* the value is returned to the caller, or the error message is printed and
\* attempts counted; after max_attempts of them None is returned and the
\* caller returns
PromptTurn(raw) ==
    LET value == Strip(raw)
    IN IF Accepts(pc, value, employees) THEN
          /\ pc' = AfterPrompt(pc)
          /\ loc' = [Bind(loc, pc, value) EXCEPT !.attempts = 0, !.raw = raw]
          /\ out' = IF pc = "search_id" THEN "details" ELSE "none"
       ELSE IF loc.attempts + 1 < MaxAttempts THEN
          /\ pc' = pc
          /\ loc' = [loc EXCEPT !.attempts = loc.attempts + 1, !.raw = raw]
          /\ out' = "invalid_value"
       ELSE
          /\ pc' = "return"
          /\ loc' = [loc EXCEPT !.attempts = loc.attempts + 1, !.raw = raw]
          /\ out' = "max_attempts"

\* a variant of Prompt in which update() stores a new name as soon as it is
\* entered
Prompt_WriteThrough(raw) ==
    /\ pc \in PromptStates
    /\ PromptTurn(raw)
    /\ employees' =
          IF pc = "upd_name" /\ Strip(raw) # <<>>
          THEN [employees EXCEPT ![CHOOSE i \in 1..Len(employees) :
                                      employees[i].ID = loc.emp_id].Name = Strip(raw)]
          ELSE employees
    /\ UNCHANGED <<file, tmp, exitCode, snap, saveCalled, lastSaved, everSaved,
                   refKeys, fromEmpty>>

\* a prompt of add, update, delete or search; nothing but local variables
\* changes
Prompt(raw) ==
    /\ pc \in PromptStates
    /\ PromptTurn(raw)
    /\ UNCHANGED <<employees, file, tmp, exitCode, snap, saveCalled, lastSaved,
                   everSaved, refKeys, fromEmpty>>

\* ------------------------------------------------------------ mutators

\* the call self.save_all() of add, update and delete
CallSaveAll ==
    /\ pc' = "save_open"
    /\ saveCalled' = TRUE

\* a variant of NewRecord with name and position exchanged
NewRecord_Swapped(l) ==
    [ID |-> l.emp_id, Name |-> l.position, Position |-> l.name,
     Salary |-> l.salary, Email |-> l.email]

\* the entry add() stores under emp_id; str(salary) of a str is the str
NewRecord(l) ==
    [ID |-> l.emp_id, Name |-> l.name, Position |-> l.position,
     Salary |-> l.salary, Email |-> l.email]

\* add(), after the five prompts: self.employees[emp_id] = {...}; save_all()
AddInsert ==
    /\ pc = "add_insert"
    /\ employees' = DictSet(employees, NewRecord(loc))
    /\ CallSaveAll
    /\ out' = "none"
    /\ UNCHANGED <<file, tmp, loc, exitCode, snap, lastSaved, everSaved, refKeys,
                   fromEmpty>>

\* a variant of Assigned that stores every value entered, the empty ones too
Assigned_All(current, l) ==
    [ID |-> current.ID, Name |-> l.name, Position |-> l.position,
     Salary |-> l.salary, Email |-> l.email]

\* update(): the four "if new_x: current[x] = new_x" on the stored record
Assigned(current, l) ==
    [ID |-> current.ID,
     Name |-> IF l.name # <<>> THEN l.name ELSE current.Name,
     Position |-> IF l.position # <<>> THEN l.position ELSE current.Position,
     Salary |-> IF l.salary # <<>> THEN l.salary ELSE current.Salary,
     Email |-> IF l.email # <<>> THEN l.email ELSE current.Email]

\* update(), after the five prompts: the assignments, then save_all()
UpdateAssign ==
    /\ pc = "upd_assign"
    /\ employees' = DictSet(employees, Assigned(Lookup(employees, loc.emp_id), loc))
    /\ CallSaveAll
    /\ out' = "none"
    /\ UNCHANGED <<file, tmp, loc, exitCode, snap, lastSaved, everSaved, refKeys,
                   fromEmpty>>

\* a variant of Confirmed that takes every answer beginning with y
Confirmed_Prefix(raw) ==
    LET confirm == Lower(Strip(raw))
    IN confirm # <<>> /\ confirm[1] = "y"

\* confirm = input(...).strip().lower(); if confirm == 'y'
Confirmed(raw) == Lower(Strip(raw)) = <<"y">>

\* delete(), after the prompt for the id: the confirmation; 'y' deletes and
\* saves, anything else cancels
DeleteConfirm(raw) ==
       /\ pc = "del_confirm"
       /\ loc' = [loc EXCEPT !.confirm = raw]
       /\ IF Confirmed(raw) THEN
             /\ employees' = DictDel(employees, loc.emp_id)
             /\ CallSaveAll
             /\ out' = "none"
          ELSE
             /\ pc' = "return"
             /\ out' = "cancelled"
             /\ UNCHANGED <<employees, saveCalled>>
       /\ UNCHANGED <<file, tmp, exitCode, snap, lastSaved, everSaved, refKeys,
                      fromEmpty>>

\* ------------------------------------------------------------ save_all()

SaveStates == {"save_open", "save_header", "save_rows", "save_replace"}

\* a variant of SaveOpen that opens the persistence file itself for writing
SaveOpen_InPlace ==
    /\ pc = "save_open"
    /\ tmp' = <<>>
    /\ file' = <<>>
    /\ pc' = "save_header"
    /\ out' = "none"
    /\ UNCHANGED <<employees, loc, exitCode, snap, saveCalled, lastSaved,
                   everSaved, refKeys, fromEmpty>>

\* a variant of SaveOpen that opens the temporary file for appending
SaveOpen_Append ==
    /\ pc = "save_open"
    /\ tmp' = IF tmp = NoFile THEN <<>> ELSE tmp
    /\ pc' = "save_header"
    /\ out' = "none"
    /\ UNCHANGED <<employees, file, loc, exitCode, snap, saveCalled, lastSaved,
                   everSaved, refKeys, fromEmpty>>

\* open(temp_name, mode="w"): the temporary file is created or truncated
SaveOpen ==
    /\ pc = "save_open"
    /\ tmp' = <<>>
    /\ pc' = "save_header"
    /\ out' = "none"
    /\ UNCHANGED <<employees, file, loc, exitCode, snap, saveCalled, lastSaved,
                   everSaved, refKeys, fromEmpty>>

\* writer.writeheader()
SaveHeader ==
    /\ pc = "save_header"
    /\ tmp' = tmp \o HeaderLine
    /\ pc' = IF employees = <<>> THEN "save_replace" ELSE "save_rows"
    /\ loc' = [loc EXCEPT !.i = 1]
    /\ out' = "none"
    /\ UNCHANGED <<employees, file, exitCode, snap, saveCalled, lastSaved, everSaved,
                   refKeys, fromEmpty>>

\* one turn of "for emp_id, data in self.employees.items(): writer.writerow(row)";
\* after the last one the file is closed
SaveRow ==
    /\ pc = "save_rows"
    /\ tmp' = tmp \o RecordLine(employees[loc.i])
    /\ pc' = IF loc.i = Len(employees) THEN "save_replace" ELSE "save_rows"
    /\ loc' = [loc EXCEPT !.i = loc.i + 1]
    /\ out' = "none"
    /\ UNCHANGED <<employees, file, exitCode, snap, saveCalled, lastSaved, everSaved,
                   refKeys, fromEmpty>>

\* os.replace(temp_name, self.filename), and save_all() returns
SaveReplace ==
    /\ pc = "save_replace"
    /\ file' = tmp
    /\ tmp' = NoFile
    /\ pc' = "report"
    /\ lastSaved' = employees
    /\ everSaved' = TRUE
    /\ out' = "none"
    /\ UNCHANGED <<employees, loc, exitCode, snap, saveCalled, refKeys, fromEmpty>>

\* an OSError in save_all() (open, write or replace fails): nothing in run()
\* catches it, the process ends with a traceback
SaveFail ==
    /\ pc \in SaveStates
    /\ Stop(1, "OSError")
    /\ UNCHANGED <<file, tmp, lastSaved, everSaved>>

\* the success message of add, update and delete
Report ==
    /\ pc = "report"
    /\ pc' = "return"
    /\ out' = CASE loc.op = "add" -> "added"
                [] loc.op = "update" -> "updated"
                [] OTHER -> "deleted"
    /\ refKeys' = CASE ~fromEmpty -> refKeys
                    [] loc.op = "add" -> refKeys \cup {loc.emp_id}
                    [] loc.op = "delete" -> refKeys \ {loc.emp_id}
                    [] OTHER -> refKeys
    /\ UNCHANGED <<employees, file, tmp, loc, exitCode, snap, saveCalled, lastSaved,
                   everSaved, fromEmpty>>

\* a variant of Interrupt in which run() does not catch KeyboardInterrupt
Interrupt_Uncaught ==
    /\ pc \notin {"stopped", "loading"}
    /\ Stop(130, "KeyboardInterrupt")
    /\ UNCHANGED <<file, tmp, lastSaved, everSaved>>

\* KeyboardInterrupt anywhere in run(): "Goodbye", sys.exit(0); a temporary
\* file open in save_all() is closed with what was written to it
Interrupt ==
    /\ pc \notin {"stopped", "loading"}
    /\ Stop(0, "goodbye")
    /\ UNCHANGED <<file, tmp, lastSaved, everSaved>>

Next ==
    \/ Start
    \/ Loaded
    \/ StartupInterrupt
    \/ \E raw \in MenuInputs : MenuChoice(raw)
    \/ Return
    \/ \E raw \in InputsAt(pc) : Prompt(raw)
    \/ AddInsert
    \/ UpdateAssign
    \/ \E raw \in ConfirmInputs : DeleteConfirm(raw)
    \/ SaveOpen
    \/ SaveHeader
    \/ SaveRow
    \/ SaveReplace
    \/ SaveFail
    \/ Report
    \/ Interrupt

Spec == Init /\ [][Next]_vars

\* ------------------------------------------------------------ load() alone

\* the files of LoadSpec hold at most this many lines after the header
MaxRows == 2

\* lines a persistence file may hold: an empty ID, a full row ended by CR LF,
\* a short row, a second row for ID 1, a blank line, a quoted ID with a comma
LoadRowTexts ==
    { <<",", "A", ",", "E", LF>>,
      <<"1", ",", "A", ",", "E", ",", "5", ",", "a", "@", "x", ".", "c", CR, LF>>,
      <<"a", ",", "A", ",", "E", LF>>,
      <<"1", ",", "B", LF>>,
      <<LF>>,
      <<QuoteChar, "2", ",", "3", QuoteChar, ",", "B", LF>> }

RECURSIVE Concat(_)
Concat(texts) == IF texts = <<>> THEN <<>> ELSE Head(texts) \o Concat(Tail(texts))

\* a file whose header names the columns in another order
SwappedFile ==
    <<"N", "a", "m", "e", ",", "I", "D", LF, "A", ",", "7", LF, "B", ",", LF>>

\* the persistence files load() is applied to
LoadFiles ==
    {NoFile, <<>>, SwappedFile}
    \cup {HeaderLine \o Concat(ls) :
             ls \in UNION {[1..n -> LoadRowTexts] : n \in 0..MaxRows}}

\* a temporary file an interrupted save_all() left behind
StaleTmp == HeaderLine \o <<"8", ",", "Z", ",", "E", ",", "1", ",", "z", "@", "x", ".", "c", CR, LF>>

\* what self.employees may hold when load() is called
PriorMappings ==
    { <<>>,
      << [ID |-> <<"1">>, Name |-> <<"Z">>, Position |-> <<"E">>,
          Salary |-> <<"1">>, Email |-> <<"z", "@", "x", ".", "c">>],
         [ID |-> <<"9">>, Name |-> <<"Z">>, Position |-> <<"E">>,
          Salary |-> <<"1">>, Email |-> <<"z", "@", "x", ".", "c">>] >> }

LoadInit ==
    /\ pc = "load_call"
    /\ employees \in PriorMappings
    /\ file \in LoadFiles
    /\ tmp \in {NoFile, StaleTmp}
    /\ loc = NoLoc
    /\ out = "none"
    /\ exitCode = -1
    /\ snap = [employees |-> employees, file |-> file, stale |-> (tmp # NoFile)]
    /\ saveCalled = FALSE
    /\ lastSaved = <<>>
    /\ everSaved = FALSE
    /\ refKeys = {}
    /\ fromEmpty = FALSE

\* a variant of CallLoad that keeps what the mapping held
CallLoad_Merge ==
    /\ pc = "load_call"
    /\ pc' = "load_done"
    /\ employees' =
          IF file = NoFile \/ file = <<>> THEN employees
          ELSE LET rows == ReadRows(file)
               IN IF rows = <<>> THEN employees
                  ELSE LoadRows(employees, rows[1], rows, 2)
    /\ UNCHANGED <<file, tmp, loc, out, exitCode, snap, saveCalled, lastSaved,
                   everSaved, refKeys, fromEmpty>>

\* a call of load()
CallLoad ==
    /\ pc = "load_call"
    /\ pc' = "load_done"
    /\ employees' = Load(file)
    /\ UNCHANGED <<file, tmp, loc, out, exitCode, snap, saveCalled, lastSaved,
                   everSaved, refKeys, fromEmpty>>

LoadNext == CallLoad

LoadSpec == LoadInit /\ [][LoadNext]_vars

\* ------------------------------------------------------------ properties

OperationDone == pc = "return" /\ out \in {"added", "updated", "deleted"}

\* the data rows of a persistence file whose first field is k
RowsFor(f, k) ==
    LET rows == ReadRows(f)
    IN {i \in 2..Len(rows) : rows[i] # <<>> /\ rows[i][1] = k}

\* the entries of emps other than the one with key k, in order
Others(emps, k) ==
    LET NotK(e) == e.ID # k
    IN SelectSeq(emps, NotK)

\* C1: once a save_all() has completed, the persistence file is the complete
\* serialization of the mapping of the last completed save_all(), whatever was
\* interrupted since, and load() of it after a restart yields that mapping.
C1_FileIsLastSavedMapping ==
    everSaved => /\ file = Serialize(lastSaved)
                 /\ Load(file) = lastSaved

\* C2: when the success message of add, update or delete is printed, load() of
\* the persistence file equals the in-memory mapping.
C2_SavedBeforeSuccess ==
    OperationDone => /\ saveCalled
                     /\ file # NoFile
                     /\ Load(file) = employees

\* C3: save_all() followed by load() on a fresh store yields the mapping that
\* was saved, for every mapping the store holds.
C3_SaveLoadRoundTrip ==
    pc # "stopped" => Load(Serialize(employees)) = employees

\* C4: from an empty store, after each operation the key set of the mapping is
\* the key set replayed from the operations reported: add inserts the id,
\* delete removes it, update and abandoned or cancelled operations change
\* nothing.
C4_KeysMatchReplay ==
    (fromEmpty /\ pc \in {"menu", "return"}) => Keys(employees) = refKeys

C4_Witness ==
    /\ fromEmpty /\ pc = "return" /\ out = "deleted"
    /\ refKeys # {} /\ Keys(employees) = refKeys

\* C5: an operation abandoned because the attempts at a prompt are exhausted
\* leaves the mapping and the persistence file as they were when it began, and
\* has not called save_all().
C5_AbandonChangesNothing ==
    (pc = "return" /\ out = "max_attempts") =>
        /\ employees = snap.employees
        /\ file = snap.file
        /\ ~saveCalled

C5_Witness ==
    /\ pc = "return" /\ out = "max_attempts"
    /\ loc.op = "update" /\ loc.name # <<>> /\ loc.attempts = MaxAttempts
    /\ employees = snap.employees /\ file = snap.file

\* C6: a completed update overwrites exactly the fields supplied non-empty,
\* keeps the others, the key and every other record, and has saved.
C6_UpdateOverwritesSupplied ==
    (pc = "return" /\ out = "updated") =>
        /\ Len(employees) = Len(snap.employees)
        /\ \A i \in 1..Len(employees) :
              LET old == snap.employees[i]
                  new == employees[i]
              IN IF old.ID # loc.emp_id THEN new = old
                 ELSE /\ new.ID = old.ID
                      /\ new.Name = (IF loc.name = <<>> THEN old.Name ELSE loc.name)
                      /\ new.Position =
                            (IF loc.position = <<>> THEN old.Position ELSE loc.position)
                      /\ new.Salary =
                            (IF loc.salary = <<>> THEN old.Salary ELSE loc.salary)
                      /\ new.Email = (IF loc.email = <<>> THEN old.Email ELSE loc.email)
        /\ saveCalled
        /\ file = Serialize(employees)

\* the scenario of the specification: only the salary supplied, 50000 to 60000
C6_Witness ==
    /\ pc = "return" /\ out = "updated"
    /\ loc.name = <<>> /\ loc.position = <<>> /\ loc.email = <<>>
    /\ loc.salary = <<"6", "0", "0", "0", "0">>
    /\ Lookup(snap.employees, loc.emp_id).Salary = <<"5", "0", "0", "0", "0">>
    /\ Lookup(employees, loc.emp_id).Salary = <<"6", "0", "0", "0", "0">>
    /\ Lookup(employees, loc.emp_id).Name = Lookup(snap.employees, loc.emp_id).Name

\* the answer is 'y' once trimmed, in either case
IsYes(raw) == Strip(raw) \in {<<"y">>, <<"Y">>}

DeleteAnswered ==
    /\ loc.op = "delete"
    /\ \/ pc \in SaveStates \cup {"report"}
       \/ pc = "return" /\ out \in {"deleted", "cancelled"}

\* C7: after the confirmation of delete is answered, the record of the id is
\* removed (it alone) and the file rewritten only if the answer is 'y'; any
\* other answer leaves the mapping and the persistence file unchanged.
C7_DeleteNeedsConfirmation ==
    DeleteAnswered =>
        IF IsYes(loc.confirm)
        THEN /\ Has(snap.employees, loc.emp_id)
             /\ employees = Others(snap.employees, loc.emp_id)
             /\ saveCalled
             /\ pc = "return" => file = Serialize(employees)
        ELSE /\ employees = snap.employees
             /\ file = snap.file
             /\ ~saveCalled

C7_Witness ==
    /\ pc = "return" /\ out = "deleted"
    /\ loc.confirm = <<" ", "Y">>
    /\ employees # <<>>
    /\ ~Has(employees, loc.emp_id)

\* C8: after a completed add, the lookup of the id returns the values entered,
\* every record stored before is unchanged, and the persistence file holds
\* exactly one row for the id (on an empty store, one data row in all).
C8_AddStoresRecord ==
    (pc = "return" /\ out = "added") =>
        /\ Has(employees, loc.emp_id)
        /\ Lookup(employees, loc.emp_id) =
              [ID |-> loc.emp_id, Name |-> loc.name, Position |-> loc.position,
               Salary |-> loc.salary, Email |-> loc.email]
        /\ Others(employees, loc.emp_id) = snap.employees
        /\ Cardinality(RowsFor(file, loc.emp_id)) = 1
        /\ snap.employees = <<>> => Len(ReadRows(file)) = 2

C8_Witness ==
    /\ pc = "return" /\ out = "added"
    /\ snap.employees # <<>>
    /\ loc.name = <<"B", ",", "C">>
    /\ Cardinality(RowsFor(file, loc.emp_id)) = 1

\* C9: every key of the mapping is a non-empty string of decimal digits.
C9_KeysAreDecimal ==
    \A k \in Keys(employees) :
        k # <<>> /\ \A i \in 1..Len(k) : k[i] \in DecimalDigits

\* C10: a save_all() that fails with an I/O error, at whatever step, leaves the
\* persistence file as it was when the operation began.
C10_FailedSaveKeepsFile ==
    [][(pc \in SaveStates /\ pc' = "stopped" /\ out' = "OSError")
          => file' = snap.file]_vars

C10_Witness ==
    /\ pc = "stopped" /\ out = "OSError"
    /\ file # NoFile /\ tmp # NoFile /\ tmp # file /\ tmp # <<>>

\* the six choices of the menu
MenuChoices == {<<"1">>, <<"2">>, <<"3">>, <<"4">>, <<"5">>, <<"6">>}

\* C11: at the menu, what is typed is taken as invalid exactly when, trimmed,
\* it is none of 1 to 6, and then the menu is shown again with the mapping and
\* the persistence file unchanged; and every end of the process inside run()
\* that is no uncaught error (choice 6, or an interrupt at the menu, at a
\* prompt, at the confirmation or during a save) is an exit with code 0.
C11_MenuAndCleanExit ==
    [][/\ (pc = "menu" /\ pc' # "stopped") =>
            /\ (Strip(loc'.choice) \notin MenuChoices) <=> (out' = "invalid_choice")
            /\ out' = "invalid_choice" =>
                  /\ pc' = "return"
                  /\ employees' = employees
                  /\ file' = file
       /\ (pc \notin {"stopped", "loading"} /\ pc' = "stopped"
             /\ out' \notin {"OSError", "TypeError"}) =>
            /\ out' = "goodbye"
            /\ exitCode' = 0]_vars

\* the process was interrupted or left while a temporary file of save_all()
\* exists, and ended with code 0
C11_Witness ==
    /\ pc = "stopped" /\ out = "goodbye" /\ exitCode = 0
    /\ tmp # NoFile /\ tmp # <<>> /\ tmp # file

\* the data rows of a file: the rows after the header that are no blank lines
DataRows(f) ==
    LET rows == ReadRows(f)
    IN {i \in 2..Len(rows) : rows[i] # <<>>}

\* the column of the header of f named ID, 0 when there is none
IdColumn(f) ==
    LET header == ReadRows(f)[1]
    IN IF \E c \in 1..Len(header) : header[c] = F_ID
       THEN CHOOSE c \in 1..Len(header) : header[c] = F_ID
       ELSE 0

\* the non-empty IDs of the data rows of a non-empty file
RowIds(f) ==
    LET rows == ReadRows(f)
    IN {rows[i][IdColumn(f)] :
          i \in {j \in DataRows(f) : IdColumn(f) \in 1..Len(rows[j])}} \ {<<>>}

\* C12: after load() the mapping is empty when the persistence file is missing
\* or empty; otherwise its keys are exactly the non-empty IDs of the data rows
\* of the file, one entry each, every entry taken from a row of the file,
\* whatever the mapping held before.
C12_LoadFromFileOnly ==
    pc = "load_done" =>
        /\ file = snap.file
        /\ file \in {NoFile, <<>>} => employees = <<>>
        /\ file \notin {NoFile, <<>>} =>
              /\ Keys(employees) = RowIds(file)
              /\ Len(employees) = Cardinality(RowIds(file))
              /\ \A n \in 1..Len(employees) :
                    \E i \in DataRows(file) :
                       LET header == ReadRows(file)[1]
                           row == ReadRows(file)[i]
                       IN /\ RowGet(header, row, F_ID, <<>>) = employees[n].ID
                          /\ RowGet(header, row, F_Name, <<>>) = employees[n].Name
                          /\ RowGet(header, row, F_Position, <<>>) = employees[n].Position

\* a file with a row of empty ID and a row for ID 1 was loaded over a mapping
\* that held 1 and 9: the entry of 1 is the one of the file, 9 is gone
C12_Witness ==
    /\ pc = "load_done"
    /\ Keys(snap.employees) = {<<"1">>, <<"9">>}
    /\ Keys(employees) = {<<"1">>}
    /\ Lookup(employees, <<"1">>).Name = <<"A">>
    /\ \E i \in DataRows(file) : ReadRows(file)[i][1] = <<>>

\* what may be given to the two predicates: the trimmed inputs and the keys
IdCandidates == {Strip(raw) : raw \in IdInputs} \cup Keys(employees)

IsDecimalId(c) == c # <<>> /\ \A i \in 1..Len(c) : c[i] \in DecimalDigits

\* C13: for the mapping of every state of a running process, validate_id holds
\* of a candidate exactly when it is a non-empty string of decimal digits that
\* is no key of the mapping, and validate_existing_id exactly when it is a key.
C13_IdValidators ==
    pc # "stopped" =>
        \A c \in IdCandidates :
            /\ validate_id(c, employees) <=> (IsDecimalId(c) /\ c \notin Keys(employees))
            /\ validate_existing_id(c, employees) <=> (c \in Keys(employees))

\* C14: list() never fails; it prints every entry of the mapping exactly once,
\* in ascending order of the keys, an output determined by the mapping alone
\* (two calls with no mutation between them print the same), and leaves the
\* mapping and the persistence file as they were.
C14_ListEmitsAllSorted ==
    /\ out # "TypeError"
    /\ (pc = "return" /\ loc.op = "list") =>
          /\ Len(loc.listed) = Len(employees)
          /\ \A i \in 1..Len(employees) :
                Cardinality({j \in 1..Len(loc.listed) : loc.listed[j] = employees[i]}) = 1
          /\ \A i, j \in 1..Len(loc.listed) :
                i < j => StrLess(loc.listed[i].ID, loc.listed[j].ID)
          /\ loc.listed = ListOutput(employees)
          /\ employees = snap.employees
          /\ file = snap.file
          /\ ~saveCalled

\* the local variable of the caller that holds what the call returned
Returned(p, l) ==
    CASE p \in {"add_id", "upd_id", "del_id", "search_id"} -> l.emp_id
      [] p \in {"add_name", "upd_name"} -> l.name
      [] p \in {"add_position", "upd_position"} -> l.position
      [] p \in {"add_salary", "upd_salary"} -> l.salary
      [] OTHER -> l.email

\* C15: a call of get_input_with_retry has rejected fewer than max_attempts
\* inputs whenever it reads one; the input read, trimmed, is returned at once
\* when the validator of the call holds of it or it is empty and allow_empty is
\* set, and always when the call has no validator; otherwise it is counted, and
\* the call is abandoned exactly when the count reaches max_attempts, and
\* prompts again before that.
C15_BoundedRetry ==
    [][(pc \in PromptStates /\ pc' # "stopped") =>
          LET value == Strip(loc'.raw)
              accepted == \/ AllowEmpty(pc) /\ value = <<>>
                          \/ Validates(pc, value, employees)
          IN /\ loc.attempts < MaxAttempts
             /\ pc \in {"upd_name", "upd_position"} => accepted
             /\ accepted =>
                   /\ pc' = AfterPrompt(pc)
                   /\ Returned(pc, loc') = value
                   /\ out' \notin {"invalid_value", "max_attempts"}
             /\ ~accepted =>
                   /\ loc'.attempts = loc.attempts + 1
                   /\ Returned(pc, loc') = Returned(pc, loc)
                   /\ IF loc'.attempts = MaxAttempts
                      THEN pc' = "return" /\ out' = "max_attempts"
                      ELSE pc' = pc /\ out' = "invalid_value"]_vars

\* add is abandoned at its last prompt: three emails rejected after the four
\* other values were accepted
C15_Witness ==
    /\ pc = "return" /\ out = "max_attempts"
    /\ loc.op = "add" /\ loc.salary # <<>> /\ loc.email = <<>>
    /\ loc.attempts = MaxAttempts /\ loc.raw = <<"b">>

\* the states of add after its id prompt
AfterAddId == {"add_name", "add_position", "add_salary", "add_email", "add_insert"}

\* C16: no two entries of the mapping share an id; an id typed at the id
\* prompt of add that is a key of the mapping is not accepted; from the id
\* prompt to the insertion the id of add is no key; and the insertion of add
\* leaves every entry the mapping held as it was.
C16_AddNeverOverwrites ==
    [][/\ \A i, j \in 1..Len(employees) :
             i # j => employees[i].ID # employees[j].ID
       /\ (pc = "add_id" /\ pc' # "stopped" /\ Strip(loc'.raw) \in Keys(employees)) =>
             pc' \in {"add_id", "return"}
       /\ pc \in AfterAddId => loc.emp_id \notin Keys(employees)
       /\ (pc = "add_insert" /\ pc' # "stopped") =>
             /\ Len(employees') = Len(employees) + 1
             /\ \A i \in 1..Len(employees) : employees'[i] = employees[i]]_vars

\* an id that is already stored was typed at the id prompt of add and rejected
C16_Witness ==
    /\ pc = "add_id" /\ loc.attempts = 1 /\ out = "invalid_value"
    /\ Strip(loc.raw) \in Keys(employees)

\* C17: in a process that started with an empty mapping, every entry has an id
\* that is a non-empty string of decimal digits, a non-empty name and position,
\* a salary of which validate_salary holds and an email of which
\* validate_email holds.
C17_RecordsSatisfyDataModel ==
    fromEmpty =>
        \A i \in 1..Len(employees) :
            LET e == employees[i]
            IN /\ IsDecimalId(e.ID)
               /\ e.Name \notin {<<>>, None}
               /\ e.Position \notin {<<>>, None}
               /\ e.Salary # None /\ validate_salary(e.Salary)
               /\ e.Email # None /\ validate_email(e.Email)

\* C18: at every menu prompt the mapping is what load() yields on the
\* persistence file as it is then (the empty mapping when there is no file or
\* an empty one).
C18_MenuMappingIsLoadOfFile ==
    pc = "menu" => employees = Load(file)

\* C19: what load() puts in the mapping at start-up comes from the persistence
\* file whatever temporary file exists; while save_all() writes, the temporary
\* file holds the beginning of the serialization of the current mapping and
\* nothing else; and when it has completed, no temporary file is left and the
\* persistence file is the serialization of the current mapping, with one data
\* row for each key and no other row.
C19_StaleTmpNeverUsed ==
    [][/\ (pc = "loading" /\ pc' = "menu") =>
             /\ file \in {NoFile, <<>>} => employees' = <<>>
             /\ file \notin {NoFile, <<>>} => Keys(employees') = RowIds(file)
       /\ pc' \in {"save_rows", "save_replace"} =>
             /\ Len(tmp') <= Len(Serialize(employees'))
             /\ tmp' = SubSeq(Serialize(employees'), 1, Len(tmp'))
       /\ pc' = "report" =>
             /\ tmp' = NoFile
             /\ file' = Serialize(employees')
             /\ RowIds(file') = Keys(employees')
             /\ Cardinality(DataRows(file')) = Len(employees')]_vars

\* an operation that began while a temporary file of an earlier process
\* existed has saved a non-empty mapping
C19_Witness ==
    /\ OperationDone /\ snap.stale
    /\ employees # <<>>
    /\ tmp = NoFile /\ file = Serialize(employees)

====
